---- MODULE Spec2Model ----
(***************************************************************************)
(* Model of src/performance_comparison.py: a Streamlit script that loads   *)
(* a fixed six-row table (two versions x three scenarios), lets the user   *)
(* pick one of three metrics, and derives a percentage improvement per     *)
(* scenario plus their mean.                                               *)
(*                                                                         *)
(* Numbers.  The script computes in IEEE doubles (numpy scalars).  The     *)
(* model computes the same expressions in exact rationals <<n, d>> (d > 0, *)
(* lowest terms) extended with the three non-finite doubles the script can *)
(* produce: <<1, 0>> = inf, <<-1, 0>> = -inf, <<0, 0>> = nan.  numpy's     *)
(* scalar division by zero returns inf/-inf/nan (with a RuntimeWarning,    *)
(* which is not an exception).  Double rounding error (about 1e-16         *)
(* relative) is not modelled; every property below speaks about values at  *)
(* a granularity of 0.01 or coarser, or about values that are exact in     *)
(* doubles as well.                                                        *)
(***************************************************************************)
EXTENDS Integers, Sequences, FiniteSets, TLC

(***************************************************************************)
(* Bounds of the custom-dataset family used by SpecCalc.                   *)
(***************************************************************************)
MaxVal == 2

(***************************************************************************)
(* Float arithmetic.                                                       *)
(***************************************************************************)
RECURSIVE GCD(_, _)
GCD(a, b) == IF b = 0 THEN a ELSE GCD(b, a % b)

Abs(x) == IF x < 0 THEN -x ELSE x

Sign(x) == IF x > 0 THEN 1 ELSE IF x < 0 THEN -1 ELSE 0

\* The double n/d: lowest terms, sign in the numerator; d = 0 is non-finite.
Float(n, d) ==
    IF d = 0 THEN <<Sign(n), 0>>
    ELSE LET g == GCD(Abs(n), Abs(d))
             s == IF d < 0 THEN -1 ELSE 1
         IN  <<(s * n) \div g, (s * d) \div g>>

Inf == <<1, 0>>
NegInf == <<-1, 0>>
NaN == <<0, 0>>

IsFinite(x) == x[2] # 0
IsNaN(x) == x = NaN

\* a + b
FAdd(a, b) ==
    IF IsNaN(a) \/ IsNaN(b) THEN NaN
    ELSE IF ~IsFinite(a) /\ ~IsFinite(b) THEN (IF a = b THEN a ELSE NaN)
    ELSE IF ~IsFinite(a) THEN a
    ELSE IF ~IsFinite(b) THEN b
    ELSE Float(a[1] * b[2] + b[1] * a[2], a[2] * b[2])

FNeg(a) == <<-a[1], a[2]>>

\* a - b
FSub(a, b) == FAdd(a, FNeg(b))

\* a * b
FMul(a, b) ==
    IF IsNaN(a) \/ IsNaN(b) THEN NaN
    ELSE IF ~IsFinite(a) \/ ~IsFinite(b)
         THEN (IF a[1] = 0 \/ b[1] = 0 THEN NaN ELSE <<Sign(a[1]) * Sign(b[1]), 0>>)
    ELSE Float(a[1] * b[1], a[2] * b[2])

\* a / b as numpy divides scalars: x/0 is inf, -inf or nan, never an exception.
FDiv(a, b) ==
    IF IsNaN(a) \/ IsNaN(b) THEN NaN
    ELSE IF ~IsFinite(a) THEN (IF ~IsFinite(b) THEN NaN
                               ELSE IF b[1] < 0 THEN FNeg(a) ELSE a)
    ELSE IF ~IsFinite(b) THEN <<0, 1>>
    ELSE IF b[1] = 0 THEN <<Sign(a[1]), 0>>
    ELSE Float(a[1] * b[2], a[2] * b[1])

\* f"{x:.1f}": x rounded to the nearest tenth, kept as t/10 unreduced; inf,
\* -inf and nan print as themselves.  An exact tie goes to the even tenth
\* (no value computed below is one).
Format1(x) ==
    IF ~IsFinite(x) THEN x
    ELSE LET m == 10 * x[1]
             q == m \div x[2]
             r == m - q * x[2]
         IN  IF 2 * r > x[2] \/ (2 * r = x[2] /\ q % 2 = 1)
             THEN <<q + 1, 10>> ELSE <<q, 10>>

(***************************************************************************)
(* The table.  A DataFrame is the sequence of its rows; a row maps column  *)
(* names to cells.                                                         *)
(***************************************************************************)
Row(s, v, pt, mem, db, files, size) ==
    ("Scenario" :> s) @@ ("Version" :> v) @@ ("Processing Time (s)" :> pt)
    @@ ("Memory Usage (MB)" :> mem) @@ ("DB Connections" :> db)
    @@ ("Files" :> files) @@ ("File Size (MB)" :> size)

ScenarioColumn ==
    <<"Small (1 file)", "Medium (5 files)", "Large (10 files)">>
    \o <<"Small (1 file)", "Medium (5 files)", "Large (10 files)">>

\* The version labels with the third and fourth swapped.
VersionColumn_swapped ==
    <<"Original", "Original", "Optimized", "Original", "Optimized", "Optimized">>

VersionColumn ==
    <<"Original", "Original", "Original", "Optimized", "Optimized", "Optimized">>

ProcessingTimeColumn ==
    <<Float(23, 10), Float(125, 10), Float(352, 10),
      Float(18, 10), Float(58, 10), Float(123, 10)>>

MemoryUsageColumn ==
    <<Float(150, 1), Float(450, 1), Float(1200, 1),
      Float(95, 1), Float(180, 1), Float(320, 1)>>

DBConnectionsColumn ==
    <<Float(5, 1), Float(25, 1), Float(50, 1),
      Float(1, 1), Float(1, 1), Float(1, 1)>>

FilesColumn ==
    <<Float(1, 1), Float(5, 1), Float(10, 1),
      Float(1, 1), Float(5, 1), Float(10, 1)>>

FileSizeColumn ==
    <<Float(1, 1), Float(10, 1), Float(50, 1),
      Float(1, 1), Float(10, 1), Float(50, 1)>>

\* The body of load_performance_data: the literal table.
load_performance_data ==
    [i \in 1..Len(ScenarioColumn) |->
        Row(ScenarioColumn[i], VersionColumn[i], ProcessingTimeColumn[i],
            MemoryUsageColumn[i], DBConnectionsColumn[i], FilesColumn[i],
            FileSizeColumn[i])]

\* A cache that hands out its stored rows without copying, losing one per hit.
cache_data_consumed(c) == IF c = <<>> THEN load_performance_data ELSE Tail(c)

\* @st.cache_data: the first call runs the function and stores the result,
\* later calls return a copy of the stored value.
cache_data(c) == IF c = <<>> THEN load_performance_data ELSE c

\* The options of the sidebar selectbox.
MetricOptions == <<"Processing Time (s)", "Memory Usage (MB)", "DB Connections">>

\* The option labels taken one column too far to the right in the table.
selectbox_shifted(w) == <<"Memory Usage (MB)", "DB Connections", "Files">>[w]

\* The selection ignored: always the first option.
selectbox_first(w) == MetricOptions[1]

\* st.sidebar.selectbox: the session's current selection among the options.
selectbox(w) == MetricOptions[w]

(***************************************************************************)
(* The improvement computation (the loop at lines 122-129).                *)
(***************************************************************************)
RECURSIVE Dedup(_, _)
Dedup(col, seen) ==
    IF col = <<>> THEN <<>>
    ELSE IF Head(col) \in seen THEN Dedup(Tail(col), seen)
    ELSE <<Head(col)>> \o Dedup(Tail(col), seen \cup {Head(col)})

\* Series.unique(): the distinct values in order of first appearance.
unique(col) == Dedup(col, {})

\* df[name]: one column of the table.
Column(frame, name) == [i \in 1..Len(frame) |-> frame[i][name]]

\* The scenario filter left out: the rows of the version, whatever the scenario.
Lookup_any_scenario(frame, scenario, version, m) ==
    Column(SelectSeq(frame, LAMBDA r : r["Version"] = version), m)

\* df[(df['Scenario'] == scenario) & (df['Version'] == version)][metric]
Lookup(frame, scenario, version, m) ==
    Column(SelectSeq(frame, LAMBDA r : r["Scenario"] = scenario /\ r["Version"] = version), m)

\* A missing value read as zero instead of raising.
values0_default(series) ==
    IF series = <<>> THEN [exc |-> "none", val |-> Float(0, 1)]
    ELSE [exc |-> "none", val |-> Head(series)]

\* series.values[0]: the first element, IndexError on an empty array.
values0(series) ==
    IF series = <<>> THEN [exc |-> "IndexError", val |-> NaN]
    ELSE [exc |-> "none", val |-> Head(series)]

\* The change taken relative to the optimized value.
Improvement_over_opt(orig, opt) == FMul(FDiv(FSub(orig, opt), opt), Float(100, 1))

\* imp = ((orig - opt) / orig) * 100
Improvement(orig, opt) == FMul(FDiv(FSub(orig, opt), orig), Float(100, 1))

\* The loop body without the factor 100: a fraction, not a percentage.
LoopBody_fraction(frame, scenario, m) ==
    LET orig == values0(Lookup(frame, scenario, "Original", m))
        opt == values0(Lookup(frame, scenario, "Optimized", m))
    IN  IF orig.exc # "none" THEN [exc |-> orig.exc, rec |-> <<>>]
        ELSE IF opt.exc # "none" THEN [exc |-> opt.exc, rec |-> <<>>]
        ELSE [exc |-> "none",
              rec |-> <<[Scenario |-> scenario,
                         Improvement |-> FDiv(FSub(orig.val, opt.val), orig.val)]>>]

\* One pass of the loop body for `scenario`: the record appended, or the
\* exception raised by the first failing lookup.
LoopBody(frame, scenario, m) ==
    LET orig == values0(Lookup(frame, scenario, "Original", m))
        opt == values0(Lookup(frame, scenario, "Optimized", m))
    IN  IF orig.exc # "none" THEN [exc |-> orig.exc, rec |-> <<>>]
        ELSE IF opt.exc # "none" THEN [exc |-> opt.exc, rec |-> <<>>]
        ELSE [exc |-> "none",
              rec |-> <<[Scenario |-> scenario,
                         Improvement |-> Improvement(orig.val, opt.val)]>>]

RECURSIVE Sum(_)
Sum(vals) == IF vals = <<>> THEN Float(0, 1) ELSE FAdd(Head(vals), Sum(Tail(vals)))

\* The sum divided by one less than the number of entries.
mean_ddof(vals) ==
    LET kept == SelectSeq(vals, LAMBDA x : ~IsNaN(x))
    IN  IF kept = <<>> THEN NaN ELSE FDiv(Sum(kept), Float(Len(kept) - 1, 1))

\* Series.mean(): NaN entries are skipped (skipna); the mean of nothing is nan.
mean(vals) ==
    LET kept == SelectSeq(vals, LAMBDA x : ~IsNaN(x))
    IN  IF kept = <<>> THEN NaN ELSE FDiv(Sum(kept), Float(Len(kept), 1))

RECURSIVE LoopFrom(_, _, _, _)
LoopFrom(frame, todo, m, acc) ==
    IF todo = <<>> THEN [exc |-> "none", recs |-> acc]
    ELSE LET r == LoopBody(frame, Head(todo), m)
         IN  IF r.exc # "none" THEN [exc |-> r.exc, recs |-> acc]
             ELSE LoopFrom(frame, Tail(todo), m, acc \o r.rec)

\* Lines 122-129 run to the end: the records of improvement_df, or the
\* exception that stopped the loop and the records appended before it.
compute_improvements(frame, m) ==
    LoopFrom(frame, unique(Column(frame, "Scenario")), m, <<>>)

ImprovementColumn(frame) == [i \in 1..Len(frame) |-> frame[i].Improvement]

(***************************************************************************)
(* State.                                                                  *)
(*   cache            st.cache_data's store for load_performance_data      *)
(*   widget           the session's selectbox state (index of the option)  *)
(*   pc               the script's position                                *)
(*   df, metric, improvements, improvement_df, avg_improvement             *)
(*                    the script's variables (<<>> or "" while unassigned) *)
(*   scenarios_iter   what the loop at line 123 has still to visit         *)
(*   rows_iter        what the loop at line 159 has still to visit         *)
(*   page_bar, page_line, page_avg, page_scen                              *)
(*                    what the page shows: the bar chart's metric, the     *)
(*                    line chart's records, the summary figure, and the    *)
(*                    per-scenario figures                                 *)
(*   err              the exception that ended the run, or "none"          *)
(***************************************************************************)
VARIABLES cache, widget, pc, df, metric, scenarios_iter, improvements,
          improvement_df, avg_improvement, rows_iter,
          page_bar, page_line, page_avg, page_scen, err

vars == <<cache, widget, pc, df, metric, scenarios_iter, improvements,
          improvement_df, avg_improvement, rows_iter,
          page_bar, page_line, page_avg, page_scen, err>>

script == <<df, metric, scenarios_iter, improvements, improvement_df,
            avg_improvement, rows_iter>>

page == <<page_bar, page_line, page_avg, page_scen>>

\* A fresh script run: nothing assigned yet.
FreshRun ==
    /\ df = <<>>
    /\ metric = ""
    /\ scenarios_iter = <<>>
    /\ improvements = <<>>
    /\ improvement_df = <<>>
    /\ avg_improvement = <<>>
    /\ rows_iter = <<>>

Init ==
    /\ cache = <<>>
    /\ widget = 1
    /\ pc = "load"
    /\ FreshRun
    /\ page_bar = ""
    /\ page_line = <<>>
    /\ page_avg = <<>>
    /\ page_scen = <<>>
    /\ err = "none"

\* Line 92: df = load_performance_data()
Load ==
    /\ pc = "load"
    /\ df' = cache_data(cache)
    /\ cache' = cache_data(cache)
    /\ pc' = "select"
    /\ UNCHANGED <<widget, metric, scenarios_iter, improvements, improvement_df,
                   avg_improvement, rows_iter, page, err>>

\* Lines 96-99: metric = st.sidebar.selectbox(...)
SelectMetric ==
    /\ pc = "select"
    /\ metric' = selectbox(widget)
    /\ pc' = "bar"
    /\ UNCHANGED <<cache, widget, df, scenarios_iter, improvements, improvement_df,
                   avg_improvement, rows_iter, page, err>>

\* Lines 108-119: the grouped bar chart of df[metric].
BarChart ==
    /\ pc = "bar"
    /\ page_bar' = metric
    /\ pc' = "improve"
    /\ UNCHANGED <<cache, widget, script, page_line, page_avg, page_scen, err>>

\* Lines 122-123: improvements = []; the loop starts over df['Scenario'].unique()
StartLoop ==
    /\ pc = "improve"
    /\ improvements' = <<>>
    /\ scenarios_iter' = unique(Column(df, "Scenario"))
    /\ pc' = "loop"
    /\ UNCHANGED <<cache, widget, df, metric, improvement_df, avg_improvement,
                   rows_iter, page, err>>

\* An uncaught exception ends the run: Streamlit stops the script and drops
\* the elements of the previous run that this run has not replaced.
Abort(e) ==
    /\ err' = e
    /\ pc' = "aborted"
    /\ page_line' = IF improvement_df = <<>> THEN <<>> ELSE page_line
    /\ page_avg' = IF avg_improvement = <<>> THEN <<>> ELSE page_avg
    /\ page_scen' = <<>>

\* Lines 123-127: one iteration of the loop.
LoopStep ==
    /\ pc = "loop"
    /\ scenarios_iter # <<>>
    /\ LET r == LoopBody(df, Head(scenarios_iter), metric)
       IN  IF r.exc # "none"
           THEN /\ Abort(r.exc)
                /\ UNCHANGED <<cache, widget, script, page_bar>>
           ELSE /\ improvements' = improvements \o r.rec
                /\ scenarios_iter' = Tail(scenarios_iter)
                /\ UNCHANGED <<cache, widget, pc, df, metric, improvement_df,
                               avg_improvement, rows_iter, page, err>>

\* Line 129: improvement_df = pd.DataFrame(improvements)
MakeFrame ==
    /\ pc = "loop"
    /\ scenarios_iter = <<>>
    /\ improvement_df' = improvements
    /\ pc' = "line"
    /\ UNCHANGED <<cache, widget, df, metric, scenarios_iter, improvements,
                   avg_improvement, rows_iter, page, err>>

\* Lines 132-142: the line chart of improvement_df.
LineChart ==
    /\ pc = "line"
    /\ page_line' = improvement_df
    /\ pc' = "avg"
    /\ UNCHANGED <<cache, widget, script, page_bar, page_avg, page_scen, err>>

\* Line 148: avg_improvement = improvement_df['Improvement'].mean()
Average ==
    /\ pc = "avg"
    /\ avg_improvement' = mean(ImprovementColumn(improvement_df))
    /\ pc' = "summary"
    /\ UNCHANGED <<cache, widget, df, metric, scenarios_iter, improvements,
                   improvement_df, rows_iter, page, err>>

\* Lines 151-159: the summary figure; the loop over improvement_df starts.
ShowAverage ==
    /\ pc = "summary"
    /\ page_avg' = Format1(avg_improvement)
    /\ rows_iter' = improvement_df
    /\ pc' = "rows"
    /\ UNCHANGED <<cache, widget, df, metric, scenarios_iter, improvements,
                   improvement_df, avg_improvement, page_bar, page_line,
                   page_scen, err>>

\* The element shown at position k is replaced, or added after the others.
Replace(elems, k, e) ==
    IF k <= Len(elems) THEN [elems EXCEPT ![k] = e] ELSE Append(elems, e)

\* Lines 159-164: one per-scenario figure.
ShowScenario ==
    /\ pc = "rows"
    /\ rows_iter # <<>>
    /\ LET row == Head(rows_iter)
           k == Len(improvement_df) - Len(rows_iter) + 1
       IN  page_scen' = Replace(page_scen, k,
                                [Scenario |-> row.Scenario,
                                 Improvement |-> Format1(row.Improvement)])
    /\ rows_iter' = Tail(rows_iter)
    /\ UNCHANGED <<cache, widget, pc, df, metric, scenarios_iter, improvements,
                   improvement_df, avg_improvement, page_bar, page_line,
                   page_avg, err>>

\* Lines 166-223: static text; the run ends and the figures of the previous
\* run that were not replaced are dropped.
Finish ==
    /\ pc = "rows"
    /\ rows_iter = <<>>
    /\ page_scen' = SubSeq(page_scen, 1, Len(improvement_df))
    /\ pc' = "done"
    /\ UNCHANGED <<cache, widget, script, page_bar, page_line, page_avg, err>>

\* The user picks another option: Streamlit stops the running script (if
\* any) and runs it again from the top with fresh variables; the page keeps
\* its elements until the new run replaces them.
ChangeMetric ==
    /\ \E w \in 1..Len(MetricOptions) :
          /\ w # widget
          /\ widget' = w
    /\ pc' = "load"
    /\ df' = <<>>
    /\ metric' = ""
    /\ scenarios_iter' = <<>>
    /\ improvements' = <<>>
    /\ improvement_df' = <<>>
    /\ avg_improvement' = <<>>
    /\ rows_iter' = <<>>
    /\ err' = "none"
    /\ UNCHANGED <<cache, page>>

\* The improvement computation and what follows it (from line 122 on).
Compute ==
    \/ StartLoop
    \/ LoopStep
    \/ MakeFrame
    \/ LineChart
    \/ Average
    \/ ShowAverage
    \/ ShowScenario
    \/ Finish

Next ==
    \/ Load
    \/ SelectMetric
    \/ BarChart
    \/ Compute
    \/ ChangeMetric

Spec == Init /\ [][Next]_vars

(***************************************************************************)
(* The improvement computation on caller-supplied tables.  The tables are  *)
(* all orderings of one to four rows over two scenarios and two versions,  *)
(* at most one row per (scenario, version), each metric ranging over       *)
(* 0..MaxVal (processing time in halves), and the literal table.  The      *)
(* script is entered at line 122, with the bar chart already drawn.        *)
(***************************************************************************)
CustomScenarios == {"Small (1 file)", "Medium (5 files)"}

Versions == {"Original", "Optimized"}

CustomRow(s, v, k) ==
    Row(s, v, Float(k, 2), Float((k + 1) % (MaxVal + 1), 1), Float(MaxVal - k, 1),
        Float(1, 1), Float(1, 1))

CustomRows == {CustomRow(s, v, k) : s \in CustomScenarios, v \in Versions, k \in 0..MaxVal}

MaxRows == Cardinality(CustomScenarios) * Cardinality(Versions)

CustomTables ==
    {t \in UNION {[1..n -> CustomRows] : n \in 1..MaxRows} :
        \A i, j \in 1..Len(t) :
            (t[i]["Scenario"] = t[j]["Scenario"] /\ t[i]["Version"] = t[j]["Version"])
                => i = j}

InitCalc ==
    /\ cache = <<>>
    /\ widget \in 1..Len(MetricOptions)
    /\ df \in CustomTables \cup {load_performance_data}
    /\ metric = selectbox(widget)
    /\ pc = "improve"
    /\ scenarios_iter = <<>>
    /\ improvements = <<>>
    /\ improvement_df = <<>>
    /\ avg_improvement = <<>>
    /\ rows_iter = <<>>
    /\ page_bar = metric
    /\ page_line = <<>>
    /\ page_avg = <<>>
    /\ page_scen = <<>>
    /\ err = "none"

SpecCalc == InitCalc /\ [][Compute]_vars

(***************************************************************************)
(* Vocabulary of the properties.                                           *)
(***************************************************************************)
ScenariosOf(frame) == {frame[i]["Scenario"] : i \in 1..Len(frame)}

RowsOf(frame, s, v) ==
    {i \in 1..Len(frame) : frame[i]["Scenario"] = s /\ frame[i]["Version"] = v}

\* Exactly one Original and one Optimized row per scenario, no other version.
PairInvariant(frame) ==
    /\ \A i \in 1..Len(frame) : frame[i]["Version"] \in {"Original", "Optimized"}
    /\ \A s \in ScenariosOf(frame) :
          /\ Cardinality(RowsOf(frame, s, "Original")) = 1
          /\ Cardinality(RowsOf(frame, s, "Optimized")) = 1

\* Some scenario of the table lacks its Original or its Optimized row.
MissingPair(frame) ==
    \E s \in ScenariosOf(frame) :
        RowsOf(frame, s, "Original") = {} \/ RowsOf(frame, s, "Optimized") = {}

\* The cell of column m in the single row of scenario s and version v.
Cell(frame, s, v, m) == frame[CHOOSE i \in RowsOf(frame, s, v) : TRUE][m]

\* Some scenario's Original value of m is exactly 0.
ZeroOriginal(frame, m) ==
    \E i \in 1..Len(frame) :
        frame[i]["Version"] = "Original" /\ frame[i][m] = Float(0, 1)

FirstIndex(frame, s) ==
    CHOOSE i \in 1..Len(frame) :
        /\ frame[i]["Scenario"] = s
        /\ \A j \in 1..(i - 1) : frame[j]["Scenario"] # s

\* recs holds one record per scenario of the table, in first-seen order.
OnePerScenarioInOrder(frame, recs) ==
    /\ Len(recs) = Cardinality(ScenariosOf(frame))
    /\ {recs[i].Scenario : i \in 1..Len(recs)} = ScenariosOf(frame)
    /\ \A i, j \in 1..Len(recs) :
          i < j => FirstIndex(frame, recs[i].Scenario) < FirstIndex(frame, recs[j].Scenario)

\* v is (orig - opt) / orig * 100: by cross-multiplication when orig is not
\* zero, and the signed infinity or nan of the double quotient when it is.
IsPercentChange(v, orig, opt) ==
    IF orig[1] # 0
    THEN /\ IsFinite(v)
         /\ v[1] * (orig[1] * opt[2]) = v[2] * 100 * (orig[1] * opt[2] - opt[1] * orig[2])
    ELSE v = <<Sign(-opt[1]), 0>>

\* The mapping scenario -> improvement of a record set, as its graph.
ScenarioMap(recs) == {<<recs[i].Scenario, recs[i].Improvement>> : i \in 1..Len(recs)}

\* The table with its rows reordered by the permutation p of its indexes.
Permuted(frame, p) == [i \in 1..Len(frame) |-> frame[p[i]]]

\* x in hundredths, rounded to the nearest (x finite).
Round2(x) == (200 * x[1] + x[2]) \div (2 * x[2])

\* C1: on a table with exactly one Original and one Optimized row per
\* scenario the loop raises nothing and improvement_df holds exactly one
\* record per distinct scenario, in first-seen order (Small, Medium, Large
\* on the literal table), each valued (orig - opt) / orig * 100 of the
\* selected metric.
C1_OneRecordPerScenario ==
    PairInvariant(df) =>
        /\ err = "none"
        /\ improvement_df # <<>> =>
              /\ OnePerScenarioInOrder(df, improvement_df)
              /\ \A i \in 1..Len(improvement_df) :
                    IsPercentChange(improvement_df[i].Improvement,
                                    Cell(df, improvement_df[i].Scenario, "Original", metric),
                                    Cell(df, improvement_df[i].Scenario, "Optimized", metric))
              /\ df = load_performance_data =>
                    [i \in 1..Len(improvement_df) |-> improvement_df[i].Scenario]
                        = <<"Small (1 file)", "Medium (5 files)", "Large (10 files)">>

\* A complete two-scenario table whose first row is the Medium scenario's
\* Optimized row, computed to the end with finite, different values.
C1_Witness ==
    /\ pc = "done"
    /\ PairInvariant(df)
    /\ Len(improvement_df) = 2
    /\ df[1]["Scenario"] = "Medium (5 files)"
    /\ df[1]["Version"] = "Optimized"
    /\ IsFinite(improvement_df[1].Improvement)
    /\ IsFinite(improvement_df[2].Improvement)
    /\ improvement_df[1].Improvement # improvement_df[2].Improvement

\* The scenarios and the improvements of a record set, side by side.
ScenarioNames(recs) == [i \in 1..Len(recs) |-> recs[i].Scenario]

Hundredths(recs) == [i \in 1..Len(recs) |-> Round2(recs[i].Improvement)]

Values(recs) == [i \in 1..Len(recs) |-> recs[i].Improvement]

ThreeScenarios == <<"Small (1 file)", "Medium (5 files)", "Large (10 files)">>

\* C2: on the literal table the per-scenario improvements, rounded to two
\* decimals, are 21.74, 53.60, 65.06 for processing time and 36.67, 60.00,
\* 73.33 for memory usage; for DB connections they are exactly 80, 96, 98.
C2_FixedImprovements ==
    improvement_df # <<>> =>
        /\ ScenarioNames(improvement_df) = ThreeScenarios
        /\ \A i \in 1..Len(improvement_df) : IsFinite(improvement_df[i].Improvement)
        /\ metric = "Processing Time (s)" =>
              Hundredths(improvement_df) = <<2174, 5360, 6506>>
        /\ metric = "Memory Usage (MB)" =>
              Hundredths(improvement_df) = <<3667, 6000, 7333>>
        /\ metric = "DB Connections" =>
              Values(improvement_df) = <<(<<80, 1>>), (<<96, 1>>), (<<98, 1>>)>>

\* The memory-usage improvements have been computed and the run has ended.
C2_Witness ==
    /\ pc = "done"
    /\ metric = "Memory Usage (MB)"
    /\ Len(improvement_df) = 3

\* C3: the average improvement is the sum of the per-scenario improvements
\* divided by their number, nothing weighted; for processing time on the
\* literal table it prints as 46.8.
C3_UnweightedMean ==
    avg_improvement # <<>> =>
        /\ IsFinite(avg_improvement)
        /\ FMul(avg_improvement, Float(Len(improvement_df), 1)) = Sum(Values(improvement_df))
        /\ metric = "Processing Time (s)" => Format1(avg_improvement) = <<468, 10>>
        /\ (metric = "Processing Time (s)" /\ pc \in {"rows", "done"}) =>
              page_avg = <<468, 10>>

\* The processing-time average has been computed and shown.
C3_Witness ==
    /\ pc = "done"
    /\ metric = "Processing Time (s)"
    /\ avg_improvement # <<>>
    /\ page_avg = Format1(avg_improvement)

\* C4: a table with an Original value of exactly 0 for the selected metric
\* makes the computation raise: no record holds inf or nan, and the run
\* never goes on to improvement_df, the line chart or the summary figures.
C4_ZeroOriginalRaises ==
    ZeroOriginal(df, metric) =>
        /\ \A i \in 1..Len(improvements) : IsFinite(improvements[i].Improvement)
        /\ improvement_df = <<>>
        /\ page_line = <<>>
        /\ avg_improvement = <<>>
        /\ page_avg = <<>>
        /\ pc # "done"

\* The scenarios of the table that lack one of their two rows.
Unpaired(frame) ==
    {s \in ScenariosOf(frame) :
        RowsOf(frame, s, "Original") = {} \/ RowsOf(frame, s, "Optimized") = {}}

\* C5: on a table where some scenario lacks its Optimized or its Original
\* row the loop never completes: the run ends in an IndexError (and only
\* so), no record is made for an unpaired scenario, and no improvement_df,
\* line chart, average or summary figure comes from the records gathered
\* before the failure.
C5_MissingRowAborts ==
    MissingPair(df) =>
        /\ ~(pc = "loop" /\ scenarios_iter = <<>>)
        /\ pc \in {"improve", "loop", "aborted"}
        /\ pc = "aborted" <=> err = "IndexError"
        /\ \A i \in 1..Len(improvements) : improvements[i].Scenario \notin Unpaired(df)
        /\ improvement_df = <<>>
        /\ page_line = <<>>
        /\ avg_improvement = <<>>
        /\ page_avg = <<>>
        /\ page_scen = <<>>

\* The run was aborted by the IndexError after one record had been made.
C5_Witness ==
    /\ MissingPair(df)
    /\ pc = "aborted"
    /\ err = "IndexError"
    /\ Len(improvements) = 1

\* C6: on a table with exactly one Original and one Optimized row per
\* scenario, the computation on any reordering of the rows maps every
\* scenario to the improvement the completed run on the table itself produced.
C6_OrderInvariance ==
    (PairInvariant(df) /\ pc = "done") =>
        \A p \in Permutations(1..Len(df)) :
            LET r == compute_improvements(Permuted(df, p), metric)
            IN  /\ r.exc = "none"
                /\ ScenarioMap(r.recs) = ScenarioMap(improvement_df)

\* A complete two-scenario table, Optimized rows first, whose scenarios
\* improve differently, computed to the end.
C6_Witness ==
    /\ pc = "done"
    /\ PairInvariant(df)
    /\ Len(df) = 4
    /\ df[1]["Version"] = "Optimized"
    /\ df[2]["Version"] = "Optimized"
    /\ Cardinality(ScenarioMap(improvement_df)) = 2
    /\ improvement_df[1].Improvement # improvement_df[2].Improvement

\* The table has the three scenarios, one row of each version per scenario.
HasOnePairEach(frame) ==
    /\ ScenariosOf(frame) = {"Small (1 file)", "Medium (5 files)", "Large (10 files)"}
    /\ \A i \in 1..Len(frame) : frame[i]["Version"] \in {"Original", "Optimized"}
    /\ \A s \in ScenariosOf(frame) :
          /\ Cardinality(RowsOf(frame, s, "Original")) = 1
          /\ Cardinality(RowsOf(frame, s, "Optimized")) = 1

\* C7: whenever the script or the cache holds the table, every one of the
\* three scenarios has exactly one Original and exactly one Optimized row,
\* and no row has another version.
C7_OnePairPerScenario ==
    /\ df # <<>> => HasOnePairEach(df)
    /\ cache # <<>> => HasOnePairEach(cache)

\* The table is loaded in a run that follows a change of the selection.
C7_Witness ==
    /\ pc = "done"
    /\ widget = 3
    /\ Len(df) = 6
    /\ cache = df

\* C8: the table is read-only: once stored by the first call it never
\* changes, every call returns those same six rows, and no step of a run
\* changes the table the run holds.
C8_ReadOnly ==
    /\ [](df # <<>> => (Len(df) = 6 /\ df = cache /\ df = load_performance_data))
    /\ [][(cache # <<>> => cache' = cache) /\ ((df # <<>> /\ df' # <<>>) => df' = df)]_vars

\* A later run has just loaded the table again while the page still shows
\* the average and the records of an earlier, completed computation.
C8_Witness ==
    /\ pc = "select"
    /\ page_avg # <<>>
    /\ page_line # <<>>
    /\ Len(page_scen) = 3
    /\ df = cache
    /\ Len(df) = 6

RecognizedMetrics == {"Processing Time (s)", "Memory Usage (MB)", "DB Connections"}

\* C9: the selector offers exactly three options, and the metric the script
\* holds, and the one the bar chart shows, is always one of 'Processing
\* Time (s)', 'Memory Usage (MB)', 'DB Connections', never 'Files' or 'File
\* Size (MB)'; no run ends in an error.
C9_RecognizedMetric ==
    /\ pc \notin {"load", "select"} => metric \in RecognizedMetrics
    /\ metric # "" => metric \in RecognizedMetrics
    /\ page_bar # "" => page_bar \in RecognizedMetrics
    /\ Len(MetricOptions) = 3
    /\ err = "none"

\* The third option has been selected and handed to chart and computation.
C9_Witness ==
    /\ pc = "done"
    /\ metric = "DB Connections"
    /\ page_bar = "DB Connections"
    /\ Len(improvement_df) = 3

\* The figures printed for a record set.
Printed(recs) ==
    [i \in 1..Len(recs) |->
        [Scenario |-> recs[i].Scenario, Improvement |-> Format1(recs[i].Improvement)]]

\* C10: when a run has completed, whatever selections came before, the
\* records, the line chart, the average and the printed figures are those
\* of the computation on the literal table for the metric now selected,
\* and nothing of an earlier selection is left on the page.
C10_DependsOnCurrentMetricOnly ==
    pc = "done" =>
        LET now == MetricOptions[widget]
            r == compute_improvements(load_performance_data, now)
        IN  /\ r.exc = "none"
            /\ metric = now
            /\ page_bar = now
            /\ improvement_df = r.recs
            /\ page_line = r.recs
            /\ avg_improvement = mean(Values(r.recs))
            /\ page_avg = Format1(mean(Values(r.recs)))
            /\ page_scen = Printed(r.recs)

\* A run has completed for the second option, selected after the default.
C10_Witness ==
    /\ pc = "done"
    /\ widget = 2
    /\ metric = "Memory Usage (MB)"
    /\ page_line = improvement_df
    /\ Len(page_scen) = 3

====
